---- MODULE Spec2Model ----
(***************************************************************************)
(* A model of dask_searchcv/methods.py: the fold cache (CVCache), the      *)
(* failure-propagating fit / fit_transform / fit_and_score primitives, the *)
(* process-wide SET_PARAMS_LOCK, and the composite reconstruction helpers. *)
(*                                                                         *)
(* Worker threads call the functions of the module.  A function that       *)
(* reads or writes shared state (the cache dictionary, the lock, an        *)
(* estimator object) is cut into one action per shared access, so that     *)
(* every interleaving the interpreter allows is a behaviour of the model.  *)
(* Fold indices are 1-based here (0-based in the source).                  *)
(***************************************************************************)
EXTENDS Integers, Sequences, FiniteSets, TLC

VARIABLES
    splits,     \* CVCache.splits
    pairwise,   \* CVCache.pairwise
    cache,      \* CVCache.cache: NoneV, or a dictionary [tag |-> "dict", d |-> key -> value]
    pc,         \* per thread: the place in the code it is at
    call,       \* per thread: the arguments and locals of the call it is in
    ret,        \* the call that ended last: how it ended, and the value returned
    ncalls,     \* number of calls started so far
    ncomputed,  \* history: per cache key, how often its subset was computed
    firstRet,   \* history: per data key, the first value extract returned for it
    firstSub,   \* history: per data key, the first subset extract returned for it
    template,   \* the estimator object the caller hands in: its parameters and fitted state
    SET_PARAMS_LOCK,  \* the thread holding SET_PARAMS_LOCK, or "free"
    nfits,      \* number of fit, fit_transform, fit_and_score and fit_best calls started so far
    error_score, \* the error_score of the search, passed to every fit
    original    \* the CVCache that was reduced to be sent to a worker, or None

\* the variables of the fold cache, and those of the estimators
cacheVars == <<splits, pairwise, cache, ncomputed, firstRet, firstSub>>
fitVars == <<template, SET_PARAMS_LOCK, nfits>>
searchVars == <<error_score, original>>

vars == <<splits, pairwise, cache, pc, call, ret, ncalls, ncomputed, firstRet, firstSub,
          template, SET_PARAMS_LOCK, nfits, error_score, original>>

----------------------------------------------------------------------------
(* Bounds of the model *)

\* calls on the cache started in one behaviour
MaxCalls == 3

\* calls of fit, fit_transform, fit_and_score and fit_best started in one behaviour
MaxFits == 2

\* steps of a pipeline, branches of a feature union
MaxBranches == 2

\* candidates of a search
MaxCandidates == 3

Threads == {"t1", "t2"}

----------------------------------------------------------------------------
(* Values.  Every value is a record with a tag, so that any two compare.   *)

NoneV == [tag |-> "None"]
MISSING == [tag |-> "MISSING"]
FIT_FAILURE == [tag |-> "FIT_FAILURE"]
Absent == [tag |-> "absent"]

\* A 2-D container with a shape attribute (ndarray, sparse matrix)
Array(rows) == [tag |-> "array", rows |-> rows]
\* A 2-D container without one (a list of lists)
List(rows) == [tag |-> "list", rows |-> rows]
Scalar(v) == [tag |-> "scalar", v |-> v]

\* An index set of a fold: explicit positions, or a boolean mask
Index(idx) == [dtype |-> "int", a |-> idx]
Mask(m) == [dtype |-> "bool", a |-> m]

RECURSIVE Nonzero(_, _)
\* the positions at which mask m is TRUE, from position i on (numpy's nonzero)
Nonzero(m, i) ==
    IF i > Len(m) THEN << >>
    ELSE IF m[i] THEN <<i>> \o Nonzero(m, i + 1) ELSE Nonzero(m, i + 1)

\* the positions an index set selects, in selection order
Positions(inds) == IF inds.dtype = "bool" THEN Nonzero(inds.a, 1) ELSE inds.a

\* sklearn.utils.safe_indexing: the rows of X that inds selects, in order
safe_indexing(X, inds) ==
    LET p == Positions(inds)
    IN  [X EXCEPT !.rows = [i \in 1..Len(p) |-> X.rows[p[i]]]]

\* X[np.ix_(rws, cols)]
ix_(X, rws, cols) ==
    LET r == Positions(rws)
        c == Positions(cols)
    IN  [X EXCEPT !.rows = [i \in 1..Len(r) |-> [j \in 1..Len(c) |-> X.rows[r[i]][c[j]]]]]

hasattr_shape(X) == X.tag = "array"
\* X.shape[0] and X.shape[1]
shape0(X) == Len(X.rows)
shape1(X) == IF Len(X.rows) = 0 THEN 0 ELSE Len(X.rows[1])

\* sklearn.utils.validation._is_arraylike
is_arraylike(x) == x.tag \in {"array", "list"}

----------------------------------------------------------------------------
(* The folds and the data the calls are made with *)

\* list(cv.split(X, y, groups)) of a splitter that yields positions for the
\* train set and a boolean mask for the test set
OneFold == << <<Index(<<2, 3>>), Mask(<<TRUE, FALSE, FALSE>>)>> >>
\* ... and of a two-fold splitter: fold 1 as positions, fold 2 as boolean masks
TwoFolds ==
    << <<Index(<<2, 3>>), Index(<<1>>)>>,
       <<Mask(<<TRUE, FALSE, TRUE>>), Mask(<<FALSE, TRUE, FALSE>>)>> >>

Folds == 1..Len(splits)
AllFolds == 1..2

\* a square kernel, a non-square feature table, a list of lists
XA == Array(<< <<1, 2, 3>>, <<2, 4, 5>>, <<3, 5, 6>> >>)
XB == Array(<< <<7, 8>>, <<9, 10>>, <<11, 12>> >>)
XL == List(<< <<1, 0, 0>>, <<0, 1, 0>>, <<0, 0, 1>> >>)
yA == Array(<<0, 1, 1>>)

\* the (X, y) pairs passed to extract
Datasets == { [X |-> XA, y |-> yA], [X |-> XB, y |-> NoneV], [X |-> XL, y |-> yA] }

\* the (token, value) pairs passed to extract_param
ParamNames == {"sample_weight"}
ParamValues == { Array(<<5, 6, 7>>), Scalar(2) }

DataKeys == { <<n, is_x, is_train>> : n \in AllFolds, is_x \in BOOLEAN, is_train \in BOOLEAN }
ParamKeys == { <<n, key>> : n \in AllFolds, key \in ParamNames }
Keys == DataKeys \cup ParamKeys

\* the estimator the caller hands in: unfitted, with its default parameters
Template0 == [params |-> [C |-> Scalar(0), k |-> Scalar(0)], fitted |-> NoneV]

----------------------------------------------------------------------------
(* CVCache *)

\* CVCache.__init__
CVCache_init(sp, pw, c) ==
    /\ splits = sp
    /\ pairwise = pw
    /\ cache = IF c THEN [tag |-> "dict", d |-> << >>] ELSE NoneV

\* CVCache.__reduce__: the arguments the copy is constructed with
CVCache_reduce == <<splits, pairwise, cache # NoneV>>

\* a lookup that finds parameter entries only: every data key misses
InCache_params_only(k) == cache.tag = "dict" /\ k \in DOMAIN cache.d /\ Len(k) = 2

\* self.cache is not None and k in self.cache
InCache(k) == cache.tag = "dict" /\ k \in DOMAIN cache.d

\* a table with one family of keys: a parameter of fold n is stored in the
\* slot of the training features of fold n
CacheStore_flat(k, v) ==
    IF cache.tag = "dict"
    THEN LET slot == IF Len(k) = 2 THEN <<k[1], TRUE, TRUE>> ELSE k
         IN  cache' = [cache EXCEPT !.d =
                         [j \in (DOMAIN cache.d) \cup {slot} |->
                             IF j = slot THEN v ELSE cache.d[j]]]
    ELSE UNCHANGED cache

\* self.cache[k] = v, when self.cache is not None
CacheStore(k, v) ==
    IF cache.tag = "dict"
    THEN cache' = [cache EXCEPT !.d =
                     [j \in (DOMAIN cache.d) \cup {k} |-> IF j = k THEN v ELSE cache.d[j]]]
    ELSE UNCHANGED cache

\* CVCache.num_test_samples
num_test_samples_value ==
    [n \in Folds |->
        LET i == splits[n][2]
        IN  IF i.dtype = "bool" THEN Len(Nonzero(i.a, 1)) ELSE Len(i.a)]

Idle == [op |-> "none"]

\* a call made by the scheduler ends: the thread is idle again
Finish(t, how, key, value, frame) ==
    /\ pc' = [pc EXCEPT ![t] = "idle"]
    /\ call' = [call EXCEPT ![t] = Idle]
    /\ ret' = [how |-> how, key |-> key, value |-> value, frame |-> frame,
               faulted |-> IF frame.op # "none" /\ frame.exc # NoneV
                           THEN ret.faulted \cup {frame.op} ELSE ret.faulted]

\* an extraction called with data ends: a call of the scheduler is over; one
\* made by fit_and_score gives its value to fit_and_score, or ends it if it raised
Return(t, how, key, value, data) ==
    IF call[t].op # "fit_and_score"
    THEN Finish(t, how, key, value, [op |-> "none", data |-> data])
    ELSE IF how \in {"ValueError", "cancelled"}
    THEN Finish(t, how, key, value, call[t])
    ELSE /\ pc' = [pc EXCEPT ![t] = "fit_and_score"]
         /\ call' = [call EXCEPT ![t].got = Append(@, value), ![t].result = Absent]
         /\ UNCHANGED ret

\* the history of the values extract returned for data key k
Record(k, how, value) ==
    /\ firstRet' = IF firstRet[k] = Absent THEN [firstRet EXCEPT ![k] = value] ELSE firstRet
    /\ firstSub' = IF how # "none" /\ firstSub[k] = Absent
                   THEN [firstSub EXCEPT ![k] = value] ELSE firstSub

StartCall(t) ==
    /\ pc[t] = "idle"
    /\ ncalls < MaxCalls
    /\ ncalls' = ncalls + 1

\* CVCache.extract: the dispatch, and the cache lookup of the function it calls
extract_body(t, X, y, n, is_x, is_train) ==
    /\ UNCHANGED <<splits, pairwise, cache, ncomputed, fitVars, searchVars>>
    /\ LET k == <<n, is_x, is_train>>
           fn == IF is_x /\ pairwise THEN "_extract_pairwise" ELSE "_extract"
           locals == [key |-> k, n |-> n, is_train |-> is_train,
                      data |-> IF is_x THEN X ELSE y, result |-> Absent]
       IN  IF ~is_x /\ y = NoneV
           THEN /\ Return(t, "none", k, NoneV, locals.data)
                /\ Record(k, "none", NoneV)
           ELSE IF InCache(k)
           THEN /\ Return(t, "hit", k, cache.d[k], locals.data)
                /\ Record(k, "hit", cache.d[k])
           ELSE /\ pc' = [pc EXCEPT ![t] = fn]
                /\ call' = [call EXCEPT ![t] =
                              IF call[t].op = "fit_and_score"
                              THEN [f \in DOMAIN call[t] |->
                                      IF f \in DOMAIN locals THEN locals[f] ELSE call[t][f]]
                              ELSE [op |-> "extract"] @@ locals]
                /\ UNCHANGED <<ret, firstRet, firstSub>>

\* cv_extract: the scheduler calls CVCache.extract
extract(t, X, y, n, is_x, is_train) ==
    /\ StartCall(t)
    /\ extract_body(t, X, y, n, is_x, is_train)

\* a row selection that puts its output buffer into the cache before filling it
extract_compute_reserving(t) ==
    /\ pc[t] = "_extract"
    /\ LET c == call[t]
           inds == IF c.is_train THEN splits[c.n][1] ELSE splits[c.n][2]
       IN  /\ call' = [call EXCEPT ![t].result = safe_indexing(c.data, inds)]
           /\ ncomputed' = [ncomputed EXCEPT ![c.key] = @ + 1]
           /\ CacheStore(c.key, [c.data EXCEPT !.rows = << >>])
    /\ pc' = [pc EXCEPT ![t] = "_extract_store"]
    /\ UNCHANGED <<splits, pairwise, ret, ncalls, firstRet, firstSub, fitVars, searchVars>>

\* CVCache._extract, after a miss: the row selection
extract_compute(t) ==
    /\ pc[t] = "_extract"
    /\ LET c == call[t]
           inds == IF c.is_train THEN splits[c.n][1] ELSE splits[c.n][2]
       IN  /\ call' = [call EXCEPT ![t].result = safe_indexing(c.data, inds)]
           /\ ncomputed' = [ncomputed EXCEPT ![c.key] = @ + 1]
    /\ pc' = [pc EXCEPT ![t] = "_extract_store"]
    /\ UNCHANGED <<splits, pairwise, cache, ret, ncalls, firstRet, firstSub, fitVars, searchVars>>

\* CVCache._extract, after a miss: the store and the return
extract_store(t) ==
    /\ pc[t] = "_extract_store"
    /\ CacheStore(call[t].key, call[t].result)
    /\ Return(t, "computed", call[t].key, call[t].result, call[t].data)
    /\ Record(call[t].key, "computed", call[t].result)
    /\ UNCHANGED <<splits, pairwise, ncalls, ncomputed, fitVars, searchVars>>

\* CVCache._extract_pairwise, after a miss: the checks and the kernel slice
extract_pairwise_compute(t) ==
    /\ pc[t] = "_extract_pairwise"
    /\ LET c == call[t]
           X == c.data
           train == splits[c.n][1]
           test == splits[c.n][2]
       IN  IF ~hasattr_shape(X) \/ shape0(X) # shape1(X)
           THEN /\ Return(t, "ValueError", c.key, Absent, c.data)
                /\ UNCHANGED ncomputed
           ELSE /\ call' = [call EXCEPT ![t].result =
                              ix_(X, IF c.is_train THEN train ELSE test, train)]
                /\ ncomputed' = [ncomputed EXCEPT ![c.key] = @ + 1]
                /\ pc' = [pc EXCEPT ![t] = "_extract_pairwise_store"]
                /\ UNCHANGED ret
    /\ UNCHANGED <<splits, pairwise, cache, ncalls, firstRet, firstSub, fitVars, searchVars>>

\* CVCache._extract_pairwise, after a miss: the store and the return
extract_pairwise_store(t) ==
    /\ pc[t] = "_extract_pairwise_store"
    /\ CacheStore(call[t].key, call[t].result)
    /\ Return(t, "computed", call[t].key, call[t].result, call[t].data)
    /\ Record(call[t].key, "computed", call[t].result)
    /\ UNCHANGED <<splits, pairwise, ncalls, ncomputed, fitVars, searchVars>>

\* CVCache.extract_param: the cache lookup
extract_param(t, key, x, n) ==
    /\ StartCall(t)
    /\ UNCHANGED <<splits, pairwise, cache, ncomputed, firstRet, firstSub, fitVars, searchVars>>
    /\ LET k == <<n, key>>
       IN  IF InCache(k)
           THEN Return(t, "hit", k, cache.d[k], x)
           ELSE /\ pc' = [pc EXCEPT ![t] = "extract_param"]
                /\ call' = [call EXCEPT ![t] =
                              [op |-> "extract_param", key |-> k, n |-> n,
                               data |-> x, result |-> Absent]]
                /\ UNCHANGED ret

\* CVCache.extract_param, after a miss: the row selection
extract_param_compute(t) ==
    /\ pc[t] = "extract_param"
    /\ LET c == call[t]
       IN  /\ call' = [call EXCEPT ![t].result =
                         IF is_arraylike(c.data)
                         THEN safe_indexing(c.data, splits[c.n][1]) ELSE c.data]
           /\ ncomputed' = [ncomputed EXCEPT ![c.key] = @ + 1]
    /\ pc' = [pc EXCEPT ![t] = "extract_param_store"]
    /\ UNCHANGED <<splits, pairwise, cache, ret, ncalls, firstRet, firstSub, fitVars, searchVars>>

\* CVCache.extract_param, after a miss: the store and the return
extract_param_store(t) ==
    /\ pc[t] = "extract_param_store"
    /\ CacheStore(call[t].key, call[t].result)
    /\ Return(t, "computed", call[t].key, call[t].result, call[t].data)
    /\ UNCHANGED <<splits, pairwise, ncalls, ncomputed, firstRet, firstSub, fitVars, searchVars>>

\* CVCache.num_test_samples (cv_n_samples)
num_test_samples(t) ==
    /\ StartCall(t)
    /\ Return(t, "counted", << >>, Scalar(num_test_samples_value), NoneV)
    /\ UNCHANGED <<splits, pairwise, cache, ncomputed, firstRet, firstSub, fitVars, searchVars>>

InCacheCall == {"_extract", "_extract_store", "_extract_pairwise", "_extract_pairwise_store",
                "extract_param", "extract_param_store"}

\* the scheduler cancels the evaluation a thread is in (or the thread dies in it)
Cancel(t) ==
    /\ pc[t] \in InCacheCall
    /\ Return(t, "cancelled", call[t].key, call[t].result, call[t].data)
    /\ UNCHANGED <<splits, pairwise, cache, ncalls, ncomputed, firstRet, firstSub, fitVars, searchVars>>

\* a reduction that ships the memoization table with the object
reduce_warm(t) ==
    /\ \A u \in Threads : pc[u] = "idle"
    /\ original = NoneV
    /\ original' = [tag |-> "CVCache", splits |-> splits, pairwise |-> pairwise,
                    cache |-> cache, ncomputed |-> ncomputed]
    /\ Finish(t, "reduced", <<"__reduce__">>, NoneV, [op |-> "none", data |-> NoneV])
    /\ UNCHANGED <<cacheVars, ncalls, fitVars, error_score>>

\* the cache is reduced, sent to a worker and reconstructed there by
\* CVCache(*args): from here on the calls are made on the copy
reduce(t) ==
    /\ \A u \in Threads : pc[u] = "idle"
    /\ original = NoneV
    /\ original' = [tag |-> "CVCache", splits |-> splits, pairwise |-> pairwise,
                    cache |-> cache, ncomputed |-> ncomputed]
    /\ splits' = CVCache_reduce[1]
    /\ pairwise' = CVCache_reduce[2]
    /\ cache' = IF CVCache_reduce[3] THEN [tag |-> "dict", d |-> << >>] ELSE NoneV
    /\ Finish(t, "reduced", <<"__reduce__">>, NoneV, [op |-> "none", data |-> NoneV])
    /\ UNCHANGED <<ncalls, ncomputed, firstRet, firstSub, fitVars, error_score>>

----------------------------------------------------------------------------
(* Estimators: set_params, fit, fit_transform *)

\* error_score='raise'
RAISE == [tag |-> "raise"]
Exception(at) == [tag |-> "Exception", at |-> at]
Pair(a, b) == [tag |-> "tuple", a |-> a, b |-> b]
Event(ev) == [ev |-> ev]

\* the estimator argument of the calls: the caller's template object
TemplateRef == [tag |-> "template"]

\* the parameters and the fitted state of the object est refers to
Deref(est) == IF est.tag = "template" THEN template ELSE est

\* utils.copy_estimator: a deep copy, an object of its own
copy_estimator(est) ==
    [tag |-> "clone", params |-> Deref(est).params, fitted |-> Deref(est).fitted]

\* {f: p for (f, p) in zip(fields, params) if p is not MISSING}
decompress(fields, params) ==
    LET fs == fields.rows
        ps == params.rows
        m == IF Len(fs) < Len(ps) THEN Len(fs) ELSE Len(ps)
        I == {i \in 1..m : ps[i] # MISSING}
    IN  [f \in {fs[i] : i \in I} |->
            ps[CHOOSE i \in I : fs[i] = f /\ \A j \in I : fs[j] = f => j <= i]]

\* the parameters of an estimator after est.set_params(**overlay)
with_params(old, overlay) ==
    [f \in DOMAIN old |-> IF f \in DOMAIN overlay THEN overlay[f] ELSE old[f]]

\* the output of est.transform(X), and of the scorer
transformed(est, X) == [tag |-> "transformed", params |-> est.params, X |-> X]
scorer(est, X, y) == [tag |-> "score", est |-> est, X |-> X, y |-> y]

\* the scorer called without labels
scorer_unsupervised(est, X) == [tag |-> "score", est |-> est, X |-> X]

\* _score without the test for FIT_FAILURE
score_unguarded(est, X, y) ==
    IF y = NoneV THEN scorer_unsupervised(est, X) ELSE scorer(est, X, y)

\* _score
score_(est, X, y) ==
    IF est = FIT_FAILURE THEN FIT_FAILURE
    ELSE IF y = NoneV THEN scorer_unsupervised(est, X) ELSE scorer(est, X, y)

\* score
score(est, X_test, y_test, X_train, y_train) ==
    LET test_score == score_(est, X_test, y_test)
    IN  IF X_train = NoneV THEN test_score
        ELSE Pair(test_score, score_(est, X_train, y_train))

\* the locals of a call of fit, fit_transform, fit_and_score or fit_best
Frame(op, est, X, y, es, fields, params) ==
    [op |-> op, est_arg |-> est, X |-> X, y |-> y, error_score |-> es,
     fields |-> fields, params |-> params,
     est |-> est, Xt |-> Absent, exc |-> NoneV, log |-> << >>, has_fit_transform |-> FALSE,
     n |-> 0, return_train_score |-> FALSE, got |-> << >>,
     key |-> << >>, is_train |-> FALSE, data |-> Absent, result |-> Absent]

Log(c, ev) == [c EXCEPT !.log = Append(@, Event(ev))]

StartFit(t) ==
    /\ pc[t] = "idle"
    /\ nfits < MaxFits
    /\ nfits' = nfits + 1

\* return est (fit), return est, Xt (fit_transform); fit_and_score goes on
\* to call score on what fit returned, and returns the scores
FitDone(t, c) ==
    IF c.op = "fit_and_score"
    THEN LET X_train == IF c.return_train_score THEN c.got[1] ELSE NoneV
             y_train == IF c.return_train_score THEN c.got[2] ELSE NoneV
         IN  Finish(t, "returned", <<c.op>>,
                    score(c.est, c.got[3], c.got[4], X_train, y_train), c)
    ELSE Finish(t, "returned", <<c.op>>,
                IF c.op = "fit_transform" THEN Pair(c.est, c.Xt) ELSE c.est, c)

\* an except clause without the test for 'raise': every fault is swallowed
Handler_swallow(t, c, e) ==
    FitDone(t, [c EXCEPT !.exc = e,
                         !.log = Append(@, [ev |-> "warn", error_score |-> c.error_score,
                                            e |-> e]),
                         !.est = FIT_FAILURE,
                         !.Xt = IF c.op = "fit_transform" THEN FIT_FAILURE ELSE @])

\* the except clause of fit and of fit_transform, entered with exception e
Handler(t, c, e) ==
    IF c.error_score = RAISE
    THEN Finish(t, "raised", <<c.op>>, e, [c EXCEPT !.exc = e])
    ELSE FitDone(t, [c EXCEPT !.exc = e,
                              !.log = Append(@, [ev |-> "warn", error_score |-> c.error_score,
                                                 e |-> e]),
                              !.est = FIT_FAILURE,
                              !.Xt = IF c.op = "fit_transform" THEN FIT_FAILURE ELSE @])

\* the frame and the template after the object est refers to got state new
SetEst(c, new) == IF c.est.tag = "template" THEN c ELSE [c EXCEPT !.est = new]
SetTemplate(c, new) ==
    template' = IF c.est.tag = "template"
                THEN [params |-> new.params, fitted |-> new.fitted] ELSE template

\* first lines that test the estimator only, not X
fit_enter_est_only(t, c, failure) ==
    IF c.est = FIT_FAILURE
    THEN Finish(t, "returned", <<c.op>>, failure, c)
    ELSE /\ pc' = [pc EXCEPT ![t] = "set_params"]
         /\ call' = [call EXCEPT ![t] = c]
         /\ UNCHANGED ret

\* the first lines of fit and of fit_transform
fit_enter(t, c, failure) ==
    IF c.est = FIT_FAILURE \/ c.X = FIT_FAILURE
    THEN Finish(t, "returned", <<c.op>>, failure, c)
    ELSE /\ pc' = [pc EXCEPT ![t] = "set_params"]
         /\ call' = [call EXCEPT ![t] = c]
         /\ UNCHANGED ret

\* fit: called with an estimator and the training data
fit(t, est, X, y, es, fields, params) ==
    /\ StartFit(t)
    /\ fit_enter(t, Frame("fit", est, X, y, es, fields, params), FIT_FAILURE)
    /\ UNCHANGED <<cacheVars, ncalls, template, SET_PARAMS_LOCK, searchVars>>

\* fit_transform: called with an estimator and the training data
fit_transform(t, est, X, y, es, fields, params, has_fit_transform) ==
    /\ StartFit(t)
    /\ fit_enter(t, [Frame("fit_transform", est, X, y, es, fields, params)
                        EXCEPT !.has_fit_transform = has_fit_transform],
                 Pair(FIT_FAILURE, FIT_FAILURE))
    /\ UNCHANGED <<cacheVars, ncalls, template, SET_PARAMS_LOCK, searchVars>>

\* set_params without the copy: est stays the caller's object
set_params_nocopy(t) ==
    /\ pc[t] = "set_params"
    /\ pc' = [pc EXCEPT ![t] = IF call[t].fields = NoneV THEN "est_fit" ELSE "SET_PARAMS_LOCK"]
    /\ call' = [call EXCEPT ![t] = Log(call[t], "copy_estimator")]
    /\ UNCHANGED <<cacheVars, ncalls, fitVars, ret, searchVars>>

\* set_params: the copy, and the return when there is nothing to set
set_params_copy(t) ==
    /\ pc[t] = "set_params"
    /\ LET c == Log(call[t], "copy_estimator")
       IN  \E ok \in BOOLEAN :
             IF ok
             THEN /\ pc' = [pc EXCEPT ![t] =
                              IF c.fields = NoneV THEN "est_fit" ELSE "SET_PARAMS_LOCK"]
                  /\ call' = [call EXCEPT ![t] = [c EXCEPT !.est = copy_estimator(c.est)]]
                  /\ UNCHANGED ret
             ELSE Handler(t, c, Exception("copy_estimator"))
    /\ UNCHANGED <<cacheVars, ncalls, fitVars, searchVars>>

\* set_params: with SET_PARAMS_LOCK, entered
lock_acquire(t) ==
    /\ pc[t] = "SET_PARAMS_LOCK"
    /\ SET_PARAMS_LOCK = "free"
    /\ SET_PARAMS_LOCK' = t
    /\ pc' = [pc EXCEPT ![t] = "est_set_params"]
    /\ call' = [call EXCEPT ![t] = Log(call[t], "acquire")]
    /\ UNCHANGED <<cacheVars, ncalls, template, nfits, ret, searchVars>>

\* est.set_params between acquire() and release() without try/finally: the
\* lock stays held when est.set_params raises
est_set_params_keeps_lock(t) ==
    /\ pc[t] = "est_set_params"
    /\ LET c == Log(Log(call[t], "set_params"), "release")
           new == [Deref(c.est) EXCEPT
                     !.params = with_params(@, decompress(c.fields, c.params))]
       IN  \E ok \in BOOLEAN :
             IF ok
             THEN /\ pc' = [pc EXCEPT ![t] = "est_fit"]
                  /\ call' = [call EXCEPT ![t] = SetEst(c, new)]
                  /\ SetTemplate(c, new)
                  /\ SET_PARAMS_LOCK' = "free"
                  /\ UNCHANGED ret
             ELSE /\ Handler(t, Log(call[t], "set_params"), Exception("set_params"))
                  /\ UNCHANGED <<template, SET_PARAMS_LOCK>>
    /\ UNCHANGED <<cacheVars, ncalls, nfits, searchVars>>

\* set_params: est.set_params(**params) returns or raises, and the with
\* statement releases the lock
est_set_params(t) ==
    /\ pc[t] = "est_set_params"
    /\ SET_PARAMS_LOCK' = "free"
    /\ LET c == Log(Log(call[t], "set_params"), "release")
           new == [Deref(c.est) EXCEPT
                     !.params = with_params(@, decompress(c.fields, c.params))]
       IN  \E ok \in BOOLEAN :
             IF ok
             THEN /\ pc' = [pc EXCEPT ![t] = "est_fit"]
                  /\ call' = [call EXCEPT ![t] = SetEst(c, new)]
                  /\ SetTemplate(c, new)
                  /\ UNCHANGED ret
             ELSE /\ Handler(t, c, Exception("set_params"))
                  /\ UNCHANGED template
    /\ UNCHANGED <<cacheVars, ncalls, nfits, searchVars>>

\* the data est is fitted on
FitX(c) == IF c.op = "fit_and_score" THEN c.got[1] ELSE c.X
FitY(c) == IF c.op = "fit_and_score" THEN c.got[2] ELSE c.y

\* est.fit(X, y), or est.fit_transform(X, y) where the estimator has it
est_fit(t) ==
    /\ pc[t] = "est_fit"
    /\ LET c0 == call[t]
           both == c0.op = "fit_transform" /\ c0.has_fit_transform
           c == Log(c0, IF both THEN "fit_transform" ELSE "fit")
           new == [Deref(c.est) EXCEPT !.fitted = [X |-> FitX(c), y |-> FitY(c)]]
           c1 == SetEst(c, new)
       IN  \E ok \in BOOLEAN :
             IF ~ok
             THEN /\ Handler(t, c, Exception(IF both THEN "fit_transform" ELSE "fit"))
                  /\ UNCHANGED template
             ELSE /\ SetTemplate(c, new)
                  /\ IF c.op = "fit_transform" /\ ~both
                     THEN /\ pc' = [pc EXCEPT ![t] = "est_transform"]
                          /\ call' = [call EXCEPT ![t] = c1]
                          /\ UNCHANGED ret
                     ELSE FitDone(t, IF both THEN [c1 EXCEPT !.Xt = transformed(new, c.X)]
                                     ELSE c1)
    /\ UNCHANGED <<cacheVars, ncalls, SET_PARAMS_LOCK, nfits, searchVars>>

\* fit_transform: est.transform(X), for an estimator without fit_transform
est_transform(t) ==
    /\ pc[t] = "est_transform"
    /\ LET c == Log(call[t], "transform")
       IN  \E ok \in BOOLEAN :
             IF ok THEN FitDone(t, [c EXCEPT !.Xt = transformed(Deref(c.est), c.X)])
             ELSE Handler(t, c, Exception("transform"))
    /\ UNCHANGED <<cacheVars, ncalls, fitVars, searchVars>>

----------------------------------------------------------------------------
(* fit_and_score, fit_best *)

\* the dataset of the search, passed to every fit_and_score
SearchData == [X |-> XA, y |-> yA]

\* fit_and_score: called for one fold and one candidate.  The arguments est,
\* fields, params and return_train_score are not read before the call of fit
\* in its fifth line: the model draws them there.
fit_and_score(t, X, y, n, es) ==
    /\ StartFit(t)
    /\ pc' = [pc EXCEPT ![t] = "fit_and_score"]
    /\ call' = [call EXCEPT ![t] =
                  [Frame("fit_and_score", Absent, X, y, es, NoneV, NoneV) EXCEPT !.n = n]]
    /\ UNCHANGED <<cacheVars, ncalls, template, SET_PARAMS_LOCK, ret, searchVars>>

\* fit_and_score: the four calls of cv.extract, in order
ExtractArgs == << <<TRUE, TRUE>>, <<FALSE, TRUE>>, <<TRUE, FALSE>>, <<FALSE, FALSE>> >>

fit_and_score_extract(t) ==
    /\ pc[t] = "fit_and_score"
    /\ Len(call[t].got) < Len(ExtractArgs)
    /\ LET c == call[t]
           a == ExtractArgs[Len(c.got) + 1]
       IN  extract_body(t, c.X, c.y, c.n, a[1], a[2])
    /\ UNCHANGED ncalls

\* fit_and_score: the call of fit, up to its first lines
fit_and_score_fit(t, est, fields, params, rts) ==
    /\ pc[t] = "fit_and_score"
    /\ Len(call[t].got) = Len(ExtractArgs)
    /\ LET c == [call[t] EXCEPT !.est_arg = est, !.est = est, !.fields = fields,
                                !.params = params, !.return_train_score = rts]
       IN  IF c.est = FIT_FAILURE \/ c.got[1] = FIT_FAILURE
           THEN FitDone(t, [c EXCEPT !.est = FIT_FAILURE])
           ELSE /\ pc' = [pc EXCEPT ![t] = "set_params"]
                /\ call' = [call EXCEPT ![t] = c]
                /\ UNCHANGED ret
    /\ UNCHANGED <<cacheVars, ncalls, fitVars, searchVars>>

\* fit_best: copy_estimator(estimator), about to call set_params on the copy
fit_best(t, estimator, params, X, y) ==
    /\ StartFit(t)
    /\ LET c == Log([Frame("fit_best", estimator, X, y, RAISE, NoneV, params)
                        EXCEPT !.est = copy_estimator(estimator)], "copy_estimator")
       IN  \E ok \in BOOLEAN :
             IF ok
             THEN /\ pc' = [pc EXCEPT ![t] = "fit_best_set_params"]
                  /\ call' = [call EXCEPT ![t] = c]
                  /\ UNCHANGED ret
             ELSE Finish(t, "raised", <<c.op>>, Exception("copy_estimator"),
                         [c EXCEPT !.est = estimator, !.exc = Exception("copy_estimator")])
    /\ UNCHANGED <<cacheVars, ncalls, template, SET_PARAMS_LOCK, searchVars>>

\* fit_best: .set_params(**params) on the copy returns or raises
fit_best_set_params(t) ==
    /\ pc[t] = "fit_best_set_params"
    /\ LET c == Log(call[t], "set_params")
           new == [Deref(c.est) EXCEPT !.params = with_params(@, c.params)]
       IN  \E ok \in BOOLEAN :
             IF ok
             THEN /\ pc' = [pc EXCEPT ![t] = "fit_best_fit"]
                  /\ call' = [call EXCEPT ![t] = SetEst(c, new)]
                  /\ SetTemplate(c, new)
                  /\ UNCHANGED ret
             ELSE /\ Finish(t, "raised", <<c.op>>, Exception("set_params"),
                            [c EXCEPT !.exc = Exception("set_params")])
                  /\ UNCHANGED template
    /\ UNCHANGED <<cacheVars, ncalls, SET_PARAMS_LOCK, nfits, searchVars>>

\* a refit that treats a fault of fit as fit does: under the error policy of
\* the search
fit_best_fit_soft(t) ==
    /\ pc[t] = "fit_best_fit"
    /\ LET c == Log(call[t], "fit")
           new == [Deref(c.est) EXCEPT !.fitted = [X |-> c.X, y |-> c.y]]
       IN  \E ok \in BOOLEAN :
             IF ok
             THEN /\ Finish(t, "returned", <<c.op>>, new, SetEst(c, new))
                  /\ SetTemplate(c, new)
             ELSE /\ Handler(t, [c EXCEPT !.error_score = error_score], Exception("fit"))
                  /\ UNCHANGED template
    /\ UNCHANGED <<cacheVars, ncalls, SET_PARAMS_LOCK, nfits, searchVars>>

\* fit_best: estimator.fit(X, y) returns or raises, and the return
fit_best_fit(t) ==
    /\ pc[t] = "fit_best_fit"
    /\ LET c == Log(call[t], "fit")
           new == [Deref(c.est) EXCEPT !.fitted = [X |-> c.X, y |-> c.y]]
       IN  \E ok \in BOOLEAN :
             IF ok
             THEN /\ Finish(t, "returned", <<c.op>>, new, SetEst(c, new))
                  /\ SetTemplate(c, new)
             ELSE /\ Finish(t, "raised", <<c.op>>, Exception("fit"),
                            [c EXCEPT !.exc = Exception("fit")])
                  /\ UNCHANGED template
    /\ UNCHANGED <<cacheVars, ncalls, SET_PARAMS_LOCK, nfits, searchVars>>

----------------------------------------------------------------------------
(* Composite reconstruction: pipeline, feature_union, feature_union_concat *)

\* list(zip(a, b)): as long as the shorter of the two
zip(a, b) ==
    [i \in 1..(IF Len(a) < Len(b) THEN Len(a) ELSE Len(b)) |-> <<a[i], b[i]>>]

\* any(s is FIT_FAILURE for s in steps)
any_failure(steps) == \E i \in 1..Len(steps) : steps[i] = FIT_FAILURE

\* pipeline
pipeline(names, steps) ==
    IF any_failure(steps) THEN FIT_FAILURE
    ELSE [tag |-> "Pipeline", steps |-> zip(names, steps)]

\* feature_union
feature_union(names, steps, weights) ==
    IF any_failure(steps) THEN FIT_FAILURE
    ELSE [tag |-> "FeatureUnion", transformer_list |-> zip(names, steps),
          transformer_weights |-> weights]

\* a scipy sparse matrix
Sparse(rows) == [tag |-> "sparse", rows |-> rows]
issparse(X) == X.tag = "sparse"

\* X * w
times(X, w) ==
    [X EXCEPT !.rows = [i \in 1..Len(X.rows) |->
                          [j \in 1..Len(X.rows[i]) |-> X.rows[i][j] * w.v]]]

\* the blocks of Xs side by side: np.hstack, sparse.hstack
RECURSIVE hstack_rows(_, _)
hstack_rows(Xs, i) ==
    IF Xs = << >> THEN << >> ELSE Head(Xs).rows[i] \o hstack_rows(Tail(Xs), i)

\* feature_union_concat with the test for FAILURE made on the branches that
\* are left after the null branches are dropped
feature_union_concat_after_drop(Xs, nsamples, weights) ==
    LET pairs == SelectSeq(zip(Xs, weights), LAMBDA p : p[1] # NoneV)
        Ws == [i \in 1..Len(pairs) |->
                 IF pairs[i][1] = FIT_FAILURE THEN FIT_FAILURE
                 ELSE IF pairs[i][2] = NoneV THEN pairs[i][1]
                 ELSE times(pairs[i][1], pairs[i][2])]
        nrows == {Len(Ws[i].rows) : i \in {j \in 1..Len(Ws) : Ws[j] # FIT_FAILURE}}
    IN  IF any_failure(Ws) THEN FIT_FAILURE
        ELSE IF Ws = << >> THEN Array([i \in 1..nsamples |-> << >>])
        ELSE IF Cardinality(nrows) > 1 THEN Exception("hstack")
        ELSE LET rows == [i \in 1..(CHOOSE n \in nrows : TRUE) |-> hstack_rows(Ws, i)]
             IN  IF \E i \in 1..Len(Ws) : issparse(Ws[i]) THEN Sparse(rows)
                 ELSE Array(rows)

\* feature_union_concat; an Exception value stands for the ValueError that
\* hstack raises for blocks of different heights
feature_union_concat(Xs, nsamples, weights) ==
    IF any_failure(Xs) THEN FIT_FAILURE
    ELSE LET pairs == SelectSeq(zip(Xs, weights), LAMBDA p : p[1] # NoneV)
             Ws == [i \in 1..Len(pairs) |->
                      IF pairs[i][2] = NoneV THEN pairs[i][1]
                      ELSE times(pairs[i][1], pairs[i][2])]
             nrows == {Len(Ws[i].rows) : i \in 1..Len(Ws)}
         IN  IF Ws = << >> THEN Array([i \in 1..nsamples |-> << >>])
             ELSE IF Cardinality(nrows) > 1 THEN Exception("hstack")
             ELSE LET rows == [i \in 1..(CHOOSE n \in nrows : TRUE) |-> hstack_rows(Ws, i)]
                  IN  IF \E i \in 1..Len(Ws) : issparse(Ws[i]) THEN Sparse(rows)
                      ELSE Array(rows)

\* a call of one of the three functions returns value, or raises it
Reconstruct(t, value) ==
    /\ IF value.tag = "Exception"
       THEN Finish(t, "raised", <<call[t].op>>, value, [call[t] EXCEPT !.exc = value])
       ELSE Finish(t, "returned", <<call[t].op>>, value, call[t])
    /\ UNCHANGED <<cacheVars, ncalls, fitVars, searchVars>>

\* the scheduler's task on thread t is a call of pipeline
pipeline_task(t) ==
    /\ pc[t] = "pipeline"
    /\ Reconstruct(t, pipeline(call[t].args.names, call[t].args.steps))

\* the scheduler's task on thread t is a call of feature_union
feature_union_task(t) ==
    /\ pc[t] = "feature_union"
    /\ Reconstruct(t, feature_union(call[t].args.names, call[t].args.steps,
                                    call[t].args.weights))

\* the scheduler's task on thread t is a call of feature_union_concat
feature_union_concat_task(t) ==
    /\ pc[t] = "feature_union_concat"
    /\ Reconstruct(t, feature_union_concat(call[t].args.Xs, call[t].args.nsamples,
                                           call[t].args.weights))

----------------------------------------------------------------------------
(* The result table: _store, create_cv_results, get_best_params *)

\* a float: the quotient num / den of two integers, den > 0
Ratio(num, den) == [tag |-> "ratio", num |-> num, den |-> den]

\* np.sqrt of num / den
Sqrt(num, den) == [tag |-> "sqrt", num |-> num, den |-> den]

RECURSIVE SumTo(_, _)
SumTo(f, n) == IF n = 0 THEN 0 ELSE f[n] + SumTo(f, n - 1)

\* np.array(array).reshape(n_splits, n_candidates).T: row c holds the scores
\* of candidate c, the list being iterated first by split, then by candidate
reshape_T(array, n_splits, n_candidates) ==
    [c \in 1..n_candidates |-> [sp \in 1..n_splits |-> array[(sp - 1) * n_candidates + c]]]

\* np.argsort(a, kind='mergesort'): the indices of a in ascending order of
\* value, equal values in the order of their indices
argsort(a) ==
    LET pos(i) == 1 + Cardinality({j \in 1..Len(a) : a[j] < a[i] \/ (a[j] = a[i] /\ j < i)})
    IN  [p \in 1..Len(a) |-> CHOOSE i \in 1..Len(a) : pos(i) = p]

\* rankdata(a, method='max'): a tie takes the highest of its positions
rankdata_max(a) ==
    [i \in 1..Len(a) |-> Cardinality({j \in 1..Len(a) : a[j] <= a[i]})]

\* rankdata(a, method='dense'): no rank is skipped after a tie
rankdata_dense(a) ==
    [i \in 1..Len(a) |-> 1 + Cardinality({a[j] : j \in {k \in 1..Len(a) : a[k] < a[i]}})]

\* rankdata(a, method='min'), as scipy computes it: sort, mark the first
\* position of every run of equal values, and give every element the first
\* position of its run
rankdata(a) ==
    LET n == Len(a)
        sorter == argsort(a)
        inv == [i \in 1..n |-> CHOOSE p \in 1..n : sorter[p] = i]
        arr == [p \in 1..n |-> a[sorter[p]]]
        obs == [p \in 1..n |-> p = 1 \/ arr[p] # arr[p - 1]]
        cumsum == [p \in 1..n |-> Cardinality({q \in 1..p : obs[q]})]
        dense == [i \in 1..n |-> cumsum[inv[i]]]
        first(d) == CHOOSE p \in 1..n : obs[p] /\ cumsum[p] = d
    IN  [i \in 1..n |-> first(dense[i])]

\* _store: the columns it adds to the results for key_name.  weights is the
\* weight of every split, the same for every candidate, or None.  The mean
\* of a row is num / W, its std the root of sum(w * (x - mean)^2) / W, kept
\* as the quotient of integers.
store(array, n_splits, n_candidates, weights, with_rank) ==
    LET rows == reshape_T(array, n_splits, n_candidates)
        w == IF weights = NoneV THEN [sp \in 1..n_splits |-> 1] ELSE weights.rows
        W == SumTo(w, n_splits)
        S(c) == SumTo([sp \in 1..n_splits |-> w[sp] * rows[c][sp]], n_splits)
        V(c) == SumTo([sp \in 1..n_splits |-> w[sp] * (W * rows[c][sp] - S(c)) * (W * rows[c][sp] - S(c))],
                      n_splits)
    IN  [splits |-> [sp \in 1..n_splits |-> [c \in 1..n_candidates |-> rows[c][sp]]],
         mean |-> [c \in 1..n_candidates |-> Ratio(S(c), W)],
         std |-> [c \in 1..n_candidates |-> Sqrt(V(c), W * W * W)],
         rank |-> IF with_rank THEN rankdata([c \in 1..n_candidates |-> 0 - S(c)])
                  ELSE NoneV]

\* FAILURE entries replaced by 0, whatever the error score
penalized_zero(scores, es) ==
    [i \in 1..Len(scores) |-> IF scores[i] = FIT_FAILURE THEN 0 ELSE scores[i].v]

\* [error_score if s is FIT_FAILURE else s for s in scores]
penalized(scores, es) ==
    [i \in 1..Len(scores) |-> IF scores[i] = FIT_FAILURE THEN es.v ELSE scores[i].v]

\* create_cv_results
create_cv_results(scores, candidate_params, n_splits, es, weights) ==
    LET tuples == scores[1].tag = "tuple"
        test_scores == IF tuples THEN [i \in 1..Len(scores) |-> scores[i].a] ELSE scores
        train_scores == IF tuples THEN [i \in 1..Len(scores) |-> scores[i].b] ELSE NoneV
        n_candidates == Len(candidate_params)
        test == store(penalized(test_scores, es), n_splits, n_candidates,
                      weights, TRUE)
        train == IF train_scores = NoneV THEN NoneV
                 ELSE store(penalized(train_scores, es), n_splits, n_candidates,
                            NoneV, FALSE)
    IN  [tag |-> "results",
         params |-> candidate_params,
         split_test_score |-> test.splits,
         mean_test_score |-> test.mean,
         std_test_score |-> test.std,
         rank_test_score |-> test.rank,
         train |-> IF train = NoneV THEN NoneV
                   ELSE [tag |-> "columns", split_train_score |-> train.splits,
                         mean_train_score |-> train.mean, std_train_score |-> train.std],
         param_C |-> [c \in 1..n_candidates |-> candidate_params[c].C]]

\* get_best_params with the last of the candidates of rank 1
get_best_params_last(candidate_params, cv_results) ==
    LET ones == {i \in 1..Len(candidate_params) : cv_results.rank_test_score[i] = 1}
    IN  IF ones = {} THEN Exception("IndexError")
        ELSE candidate_params[CHOOSE i \in ones : \A j \in ones : j <= i]

\* get_best_params: np.flatnonzero(rank == 1)[0] raises IndexError when no
\* rank is 1
get_best_params(candidate_params, cv_results) ==
    LET ones == {i \in 1..Len(candidate_params) : cv_results.rank_test_score[i] = 1}
    IN  IF ones = {} THEN Exception("IndexError")
        ELSE candidate_params[CHOOSE i \in ones : \A j \in ones : i <= j]

\* the scheduler's task on thread t is the call of create_cv_results
create_cv_results_task(t) ==
    /\ pc[t] = "create_cv_results"
    /\ LET a == call[t].args
       IN  Reconstruct(t, create_cv_results(a.scores, a.candidate_params, a.n_splits,
                                            a.error_score, a.weights))

\* the scheduler calls get_best_params with the table create_cv_results returned
get_best_params_task(t) ==
    /\ pc[t] = "idle"
    /\ ret.key = <<"create_cv_results">>
    /\ LET cp == ret.frame.args.candidate_params
           best == get_best_params(cp, ret.value)
           raised == "tag" \in DOMAIN best /\ best.tag = "Exception"
           frame == [op |-> "get_best_params",
                     args |-> [candidate_params |-> cp, cv_results |-> ret.value],
                     exc |-> IF raised THEN best ELSE NoneV]
       IN  Finish(t, IF raised THEN "raised" ELSE "returned",
                  <<"get_best_params">>, best, frame)
    /\ UNCHANGED <<cacheVars, ncalls, fitVars, searchVars>>

----------------------------------------------------------------------------
(* The specifications *)

\* the state after cv_split built the cache, before any call
Quiet ==
    /\ ret = [how |-> "nothing", key |-> << >>, value |-> Absent, frame |-> Idle,
              faulted |-> {}]
    /\ template = Template0
    /\ SET_PARAMS_LOCK = "free"
    /\ nfits = 0
    /\ ncalls = 0
    /\ ncomputed = [k \in Keys |-> 0]
    /\ firstRet = [k \in DataKeys |-> Absent]
    /\ firstSub = [k \in DataKeys |-> Absent]
    /\ original = NoneV

\* no thread has been given a task
Start ==
    /\ pc = [t \in Threads |-> "idle"]
    /\ call = [t \in Threads |-> Idle]
    /\ Quiet

\* a cache over one fold, with or without memoization
Init ==
    /\ \E pw \in BOOLEAN, c \in BOOLEAN : CVCache_init(OneFold, pw, c)
    /\ error_score = RAISE
    /\ Start

\* the steps of thread t inside a call on the cache
CacheStep(t) ==
    \/ extract_compute(t)
    \/ extract_store(t)
    \/ extract_pairwise_compute(t)
    \/ extract_pairwise_store(t)
    \/ extract_param_compute(t)
    \/ extract_param_store(t)

\* worker threads share the cache
Next ==
    \E t \in Threads :
        \/ \E D \in Datasets, n \in Folds, is_x \in BOOLEAN, is_train \in BOOLEAN :
               extract(t, D.X, D.y, n, is_x, is_train)
        \/ \E key \in ParamNames, x \in ParamValues, n \in Folds : extract_param(t, key, x, n)
        \/ num_test_samples(t)
        \/ CacheStep(t)

Spec == Init /\ [][Next]_vars

\* ... and the scheduler may cancel an evaluation at any step
CancelNext == Next \/ \E t \in Threads : Cancel(t)

CancelSpec == Init /\ [][CancelNext]_vars

\* no other thread is inside a call
Alone(t) == \A u \in Threads \ {t} : pc[u] = "idle"

\* one caller at a time
SeqNext ==
    \E t \in Threads :
        \/ \E D \in Datasets, n \in Folds, is_x \in BOOLEAN, is_train \in BOOLEAN :
               Alone(t) /\ extract(t, D.X, D.y, n, is_x, is_train)
        \/ \E key \in ParamNames, x \in ParamValues, n \in Folds :
               Alone(t) /\ extract_param(t, key, x, n)
        \/ Alone(t) /\ num_test_samples(t)
        \/ CacheStep(t)

SeqSpec == Init /\ [][SeqNext]_vars

\* the auxiliary array of the search
SearchParam == Array(<<5, 6, 7>>)

\* one caller at a time on the cache of a search, which is reduced and
\* reconstructed at some point
ReduceNext ==
    \E t \in Threads :
        \/ \E n \in Folds, is_x \in BOOLEAN, is_train \in BOOLEAN :
               Alone(t) /\ extract(t, SearchData.X, SearchData.y, n, is_x, is_train)
        \/ \E key \in ParamNames, n \in Folds :
               /\ Alone(t)
               /\ extract_param(t, key, SearchParam, n)
        \/ CacheStep(t)
        \/ reduce(t)

ReduceSpec == Init /\ [][ReduceNext]_vars

\* the arguments of the calls on estimators
ErrorScores == {RAISE, Scalar(0)}
\* fields and params of a candidate: none, or C and k with k left at its default
Overlays == { [fields |-> NoneV, params |-> NoneV],
              [fields |-> List(<<"C", "k">>), params |-> List(<<Scalar(1), MISSING>>)] }
Estimators == {TemplateRef, FIT_FAILURE}
TrainX == {XA, FIT_FAILURE}

\* the steps of thread t inside fit, fit_transform or fit_and_score
FitStep(t) ==
    \/ set_params_copy(t)
    \/ lock_acquire(t)
    \/ est_set_params(t)
    \/ est_fit(t)
    \/ est_transform(t)
    \/ fit_and_score_extract(t)
    \/ extract_compute(t)
    \/ extract_store(t)
    \/ \E est \in Estimators, o \in Overlays, return_train_score \in BOOLEAN :
           fit_and_score_fit(t, est, o.fields, o.params, return_train_score)
    \/ fit_best_set_params(t)
    \/ fit_best_fit(t)

\* the calls the scheduler makes on thread t
FitCall(t) ==
    \/ \E est \in Estimators, X \in TrainX, o \in Overlays :
           fit(t, est, X, yA, error_score, o.fields, o.params)
    \/ \E est \in Estimators, X \in TrainX, o \in Overlays, has_fit_transform \in BOOLEAN :
           fit_transform(t, est, X, yA, error_score, o.fields, o.params, has_fit_transform)
    \/ \E n \in Folds : fit_and_score(t, SearchData.X, SearchData.y, n, error_score)
    \/ fit_best(t, TemplateRef, [C |-> Scalar(1)], SearchData.X, SearchData.y)

FitNext == \E t \in Threads : FitCall(t) \/ FitStep(t)

\* a memoizing cache over two folds, and the settings of the search
FitInit ==
    /\ CVCache_init(TwoFolds, FALSE, TRUE)
    /\ error_score \in ErrorScores
    /\ Start

\* worker threads fit and score estimators over one cache
FitSpec == FitInit /\ [][FitNext]_vars

\* the same, with every worker thread scheduled as long as it can take a step
FairFitSpec == FitSpec /\ \A t \in Threads : WF_vars(FitStep(t))

\* the branches of a composite: at most MaxBranches of them
SeqsUpTo(S, n) == UNION {[1..k -> S] : k \in 0..n}
Names == {<< >>, <<"a">>, <<"a", "b">>, <<"a", "b", "c">>}
Fitted == [tag |-> "clone", params |-> Template0.params, fitted |-> [X |-> XA, y |-> yA]]
Steps == SeqsUpTo({Fitted, NoneV, FIT_FAILURE}, MaxBranches)
Blocks == {Array(<<<<1>>, <<2>>>>), Sparse(<<<<3, 0>>, <<0, 4>>>>), Array(<<<<5>>>>),
           NoneV, FIT_FAILURE}
BranchOutputs == SeqsUpTo(Blocks, MaxBranches)
Weights == SeqsUpTo({NoneV, Scalar(2)}, MaxBranches)
WeightMaps == {NoneV, [a |-> Scalar(2)]}

\* the calls of the three functions, with their arguments
Tasks ==
    {[op |-> "pipeline", args |-> [names |-> names, steps |-> steps], exc |-> NoneV] :
        names \in Names, steps \in Steps}
    \cup {[op |-> "feature_union",
           args |-> [names |-> names, steps |-> steps, weights |-> weights],
           exc |-> NoneV] : names \in Names, steps \in Steps, weights \in WeightMaps}
    \cup {[op |-> "feature_union_concat",
           args |-> [Xs |-> Xs, nsamples |-> nsamples, weights |-> weights],
           exc |-> NoneV] : Xs \in BranchOutputs, nsamples \in 1..2, weights \in Weights}

\* one thread has been given a reconstruction
CompositeInit ==
    /\ CVCache_init(OneFold, FALSE, FALSE)
    /\ error_score = RAISE
    /\ \E u \in Threads, task \in Tasks :
          call = [t \in Threads |-> IF t = u THEN task ELSE Idle]
    /\ pc = [t \in Threads |-> IF call[t] = Idle THEN "idle" ELSE call[t].op]
    /\ Quiet

CompositeNext ==
    \E t \in Threads :
        \/ pipeline_task(t)
        \/ feature_union_task(t)
        \/ feature_union_concat_task(t)

\* composites are rebuilt from the results of their steps
CompositeSpec == CompositeInit /\ [][CompositeNext]_vars

\* the scores of one unit of the search: of a fit that failed, and of two
\* that did not
UnitScores(tuples) ==
    IF tuples THEN {Pair(FIT_FAILURE, FIT_FAILURE), Pair(Scalar(1), Scalar(2)),
                    Pair(Scalar(2), Scalar(1))}
    ELSE {FIT_FAILURE, Scalar(1), Scalar(2)}

\* the numeric error scores of a search
PenaltyScores == {Scalar(0), Scalar(0 - 1)}

\* the candidates of a search, each with its own overlay
Candidates(n) == [c \in 1..n |-> [C |-> Scalar(c)]]

\* the weights of the splits: none, or the sizes of the test sets
SplitWeights(n_splits) == {NoneV, Array([sp \in 1..n_splits |-> sp])}

\* the calls of create_cv_results when the search is over
ResultTasks ==
    {[op |-> "create_cv_results",
      args |-> [scores |-> scores, candidate_params |-> Candidates(n),
                n_splits |-> Len(splits), error_score |-> error_score, weights |-> weights],
      exc |-> NoneV] :
        n \in 1..MaxCandidates,
        scores \in UNION {[1..(Len(TwoFolds) * k) -> UnitScores(tuples)] :
                             k \in 1..MaxCandidates, tuples \in BOOLEAN},
        weights \in SplitWeights(Len(TwoFolds))}

\* a search over two folds is over: one thread is to build the result table
ResultsInit ==
    /\ CVCache_init(TwoFolds, FALSE, TRUE)
    /\ error_score \in PenaltyScores
    /\ \E u \in Threads, task \in ResultTasks :
          /\ Len(task.args.scores) = Len(splits) * Len(task.args.candidate_params)
          /\ call = [t \in Threads |-> IF t = u THEN task ELSE Idle]
    /\ pc = [t \in Threads |-> IF call[t] = Idle THEN "idle" ELSE call[t].op]
    /\ Quiet

ResultsNext ==
    \E t \in Threads :
        \/ create_cv_results_task(t)
        \/ get_best_params_task(t)

\* the result table is built and the best candidate is chosen from it
ResultsSpec == ResultsInit /\ [][ResultsNext]_vars

----------------------------------------------------------------------------
(* The fold cache: memoization *)

CacheEnabled == cache.tag = "dict"

\* C1, as stated: with caching enabled and one caller at a time, every value
\* extract returns for a key is the value it returned first for that key, and
\* no key's subset is computed more than once.
C1_SameValueEveryReturn ==
    CacheEnabled =>
        /\ \A k \in DataKeys : ncomputed[k] <= 1
        /\ ret.how \in {"none", "hit", "computed"} /\ ret.key \in DataKeys
               => ret.value = firstRet[ret.key]

\* C1, amended: with caching enabled and one caller at a time, every subset
\* extract returns for a key (every return but the None it gives for a label
\* request when y is None, which is not stored) is the subset it returned
\* first for that key, and no key's subset is computed more than once.
C1_SameSubsetEveryReturn ==
    CacheEnabled =>
        /\ \A k \in DataKeys : ncomputed[k] <= 1
        /\ ret.how \in {"hit", "computed"} /\ ret.key \in DataKeys
               => ret.value = firstSub[ret.key]

\* a later extract was answered from the cache, after one computation
C1_Witness ==
    /\ CacheEnabled
    /\ ret.how = "hit" /\ ret.key \in DataKeys
    /\ ncomputed[ret.key] = 1
    /\ ret.value = cache.d[ret.key]

\* C2: with caching enabled, under every interleaving of the threads' lookup,
\* computation and store steps, the subset of a key is computed at most once.
C2_ComputedAtMostOnce == CacheEnabled => \A k \in Keys : ncomputed[k] <= 1

\* the subset the cache holds for key k when it was computed from data
IsSubsetFor(v, k, data) ==
    LET n == k[1]
        train == Positions(splits[n][1])
        test == Positions(splits[n][2])
        sel == IF Len(k) = 2 \/ k[3] THEN train ELSE test
    IN  IF Len(k) = 2 /\ ~is_arraylike(data) THEN v = data
        ELSE /\ v.tag = data.tag
             /\ Len(v.rows) = Len(sel)
             /\ IF Len(k) = 3 /\ k[2] /\ pairwise
                THEN \A i \in 1..Len(sel) :
                        /\ Len(v.rows[i]) = Len(train)
                        /\ \A j \in 1..Len(train) :
                               v.rows[i][j] = data.rows[sel[i]][train[j]]
                ELSE \A i \in 1..Len(sel) : v.rows[i] = data.rows[sel[i]]

\* the containers a call may pass for key k
InputsFor(k) ==
    IF Len(k) = 2 THEN ParamValues
    ELSE IF k[2] THEN {D.X : D \in Datasets} ELSE {D.y : D \in Datasets} \ {NoneV}

\* every entry of the table is a fully computed subset
EntriesComplete ==
    CacheEnabled =>
        \A k \in DOMAIN cache.d : \E data \in InputsFor(k) : IsSubsetFor(cache.d[k], k, data)

\* a call that is cancelled leaves the table as it was
CancelLeavesTable ==
    \A t \in Threads :
        (pc[t] \in InCacheCall /\ pc'[t] = "idle" /\ ret'.how = "cancelled") => cache' = cache

\* C3: under any interleaving, with cancellation at any step, every key of the
\* table is absent or mapped to the fully computed subset of its fold and
\* slot, and a cancelled extraction leaves no entry behind.
C3_NoPartialEntry == []EntriesComplete /\ [][CancelLeavesTable]_vars

\* an extraction was cancelled between computing and storing; its key has no entry
C3_Witness ==
    /\ CacheEnabled
    /\ ret.how = "cancelled" /\ ret.value # Absent
    /\ ret.key \notin DOMAIN cache.d

\* C4: the table grows monotonically: no key is removed, and an entry once
\* stored is never replaced by a different value.
C4_TableMonotonic ==
    [][CacheEnabled =>
          \A k \in DOMAIN cache.d : k \in DOMAIN cache'.d /\ cache'.d[k] = cache.d[k]]_vars

----------------------------------------------------------------------------
(* Parameter application and fitting *)

\* thread t is inside the parameter-setting routine of an estimator
InSetParams(t) == pc[t] \in {"est_set_params", "fit_best_set_params"}

\* C5: every invocation of a parameter-setting routine (by set_params, and by
\* fit_best) runs while holding SET_PARAMS_LOCK, so no two threads are inside
\* a parameter-setting routine at the same time.
C5_SetParamsUnderLock ==
    /\ \A t \in Threads : InSetParams(t) => SET_PARAMS_LOCK = t
    /\ Cardinality({t \in Threads : InSetParams(t)}) <= 1

\* the places at which a thread sets parameters on, or fits, its local est
Mutating == {"SET_PARAMS_LOCK", "est_set_params", "est_fit", "est_transform",
             "fit_best_set_params", "fit_best_fit"}

\* C6: the template handed in by the caller is never mutated: under every
\* interleaving of fit, fit_transform, fit_and_score and fit_best, with or
\* without an overlay, its parameters and fitted state stay as they were, and
\* the estimator that is configured and fitted is a clone.
C6_TemplateNeverMutated ==
    /\ template = Template0
    /\ \A t \in Threads : pc[t] \in Mutating => call[t].est.tag = "clone"

\* a fit returned a configured, fitted clone
C6_Witness ==
    /\ ret.how = "returned" /\ ret.key = <<"fit">>
    /\ ret.value.tag = "clone"
    /\ ret.value.fitted # NoneV
    /\ ret.value.params # template.params

FitOps == {<<"fit">>, <<"fit_transform">>}
Failure(op) == IF op = "fit_transform" THEN Pair(FIT_FAILURE, FIT_FAILURE) ELSE FIT_FAILURE
Warnings(log) == SelectSeq(log, LAMBDA ev : ev.ev = "warn")

\* C8: when copying, parameter application, fit or transform raises inside fit
\* or fit_transform: under error_score 'raise' the fault propagates and no
\* FAILURE is returned; under any other error_score exactly one warning with
\* the error score and the fault is emitted and FAILURE (for fit_transform a
\* pair of FAILUREs) is returned.
C8_FaultPolicy ==
    (ret.key \in FitOps /\ ret.frame.exc # NoneV) =>
        IF ret.frame.error_score = RAISE
        THEN /\ ret.how = "raised"
             /\ ret.value = ret.frame.exc
             /\ Warnings(ret.frame.log) = << >>
        ELSE /\ ret.how = "returned"
             /\ ret.value = Failure(ret.frame.op)
             /\ Warnings(ret.frame.log) =
                   << [ev |-> "warn", error_score |-> ret.frame.error_score,
                       e |-> ret.frame.exc] >>

\* a fault inside fit_transform was turned into a pair of FAILUREs
C8_Witness ==
    /\ ret.key = <<"fit_transform">>
    /\ ret.frame.exc = Exception("transform")
    /\ ret.frame.error_score # RAISE
    /\ ret.value = Pair(FIT_FAILURE, FIT_FAILURE)

\* C9: fit and fit_transform called with a model or an X that is FAILURE
\* return FAILURE (a pair for fit_transform) with nothing attempted: no copy,
\* no lock, no parameter set, no fit, no transform and no warning, whatever
\* the error policy.
C9_FailureShortCircuit ==
    /\ \A t \in Threads :
          call[t].op \in {"fit", "fit_transform"} =>
              call[t].est_arg # FIT_FAILURE /\ call[t].X # FIT_FAILURE
    /\ (ret.key \in FitOps /\ (ret.frame.est_arg = FIT_FAILURE \/ ret.frame.X = FIT_FAILURE)) =>
          /\ ret.how = "returned"
          /\ ret.value = Failure(ret.frame.op)
          /\ ret.frame.log = << >>
          /\ ret.frame.exc = NoneV
          /\ ret.frame.est = ret.frame.est_arg

\* fit_transform was called with a FAILURE X and returned the pair at once
C9_Witness ==
    /\ ret.key = <<"fit_transform">>
    /\ ret.frame.est_arg = TemplateRef
    /\ ret.frame.X = FIT_FAILURE
    /\ ret.value = Pair(FIT_FAILURE, FIT_FAILURE)

\* the score of the unit with frame c in a run without faults, from the
\* dataset, the fold and the candidate alone
ExpectedScore(c) ==
    LET train == splits[c.n][1]
        test == splits[c.n][2]
        params == IF c.fields = NoneV THEN Template0.params
                  ELSE with_params(Template0.params, decompress(c.fields, c.params))
        est == [tag |-> "clone", params |-> params,
                fitted |-> [X |-> safe_indexing(c.X, train), y |-> safe_indexing(c.y, train)]]
        test_score == scorer(est, safe_indexing(c.X, test), safe_indexing(c.y, test))
        train_score == scorer(est, safe_indexing(c.X, train), safe_indexing(c.y, train))
    IN  IF c.return_train_score THEN Pair(test_score, train_score) ELSE test_score

\* the score of a unit whose model is FAILURE
FailureScore(c) ==
    IF c.return_train_score THEN Pair(FIT_FAILURE, FIT_FAILURE) ELSE FIT_FAILURE

\* what a finished unit yields under an error policy other than 'raise'
UnitOutcome ==
    (error_score # RAISE /\ ret.key = <<"fit_and_score">>) =>
        /\ ret.how = "returned"
        /\ ret.frame.exc # NoneV => ret.value = FailureScore(ret.frame)
        /\ (ret.frame.exc = NoneV /\ ret.frame.est_arg # FIT_FAILURE) =>
              ret.value = ExpectedScore(ret.frame)

\* a thread waiting for the lock waits for a thread inside est.set_params
WaitsForRunner ==
    \A t \in Threads :
        (pc[t] = "SET_PARAMS_LOCK" /\ SET_PARAMS_LOCK # "free") =>
            (SET_PARAMS_LOCK \in Threads /\ pc[SET_PARAMS_LOCK] = "est_set_params")

\* C7: under an error policy other than 'raise' a fault while fitting one
\* unit leaves the other units alone: every unit runs to completion, a unit
\* without a fault yields the score it yields in a run without faults, and a
\* unit with a fault ends with FAILURE, not with a raised fault.
C7_FaultIsolated ==
    /\ [](UnitOutcome /\ (error_score # RAISE => WaitsForRunner))
    /\ \A t \in Threads :
          (error_score # RAISE /\ call[t].op = "fit_and_score") ~> (pc[t] = "idle")

\* one unit has faulted and ended with FAILURE, and a unit that started
\* before that on the other thread has returned its score
C7_Witness ==
    /\ error_score # RAISE
    /\ ret.key = <<"fit_and_score">>
    /\ ret.how = "returned"
    /\ ret.frame.exc = NoneV
    /\ ret.value = ExpectedScore(ret.frame)
    /\ ret.value.tag = "tuple"
    /\ "fit_and_score" \in ret.faulted

----------------------------------------------------------------------------
(* Composite reconstruction *)

CompositeOps == {<<"pipeline">>, <<"feature_union">>, <<"feature_union_concat">>}

\* the step or branch results a reconstruction was called with
Inputs(f) == IF f.op = "feature_union_concat" THEN f.args.Xs ELSE f.args.steps

\* C10: pipeline, feature_union and feature_union_concat return FAILURE if
\* and only if one of their step or branch inputs is FAILURE, null branches
\* and branches without a weight included; in that case they return the
\* FAILURE value itself, no composite, and raise nothing.
C10_FailureIffInput ==
    ret.key \in CompositeOps =>
        /\ (ret.value = FIT_FAILURE) <=> any_failure(Inputs(ret.frame))
        /\ any_failure(Inputs(ret.frame)) => ret.how = "returned"

\* feature_union_concat returned FAILURE for a FAILURE branch that has no
\* weight, next to a null branch
C10_Witness ==
    /\ ret.key = <<"feature_union_concat">>
    /\ ret.frame.args.Xs = <<NoneV, FIT_FAILURE>>
    /\ ret.frame.args.weights = <<Scalar(2)>>
    /\ ret.how = "returned"
    /\ ret.value = FIT_FAILURE

----------------------------------------------------------------------------
(* Scoring a FAILURE *)

\* the scorer was invoked to produce value v
Scored(v) == v.tag = "score" \/ (v.tag = "tuple" /\ (v.a.tag = "score" \/ v.b.tag = "score"))

\* C11: fit_and_score on a model that is FAILURE, whether passed in as
\* FAILURE or turned into FAILURE by a suppressed fault of fit, yields
\* FAILURE for the test score and, when the train score is requested, for
\* the train score too; the scorer is not invoked on a FAILURE model.
C11_FailureScoresFailure ==
    (ret.key = <<"fit_and_score">> /\ ret.how = "returned" /\ ret.frame.est = FIT_FAILURE) =>
        /\ ret.value = FailureScore(ret.frame)
        /\ ~Scored(ret.value)

\* a suppressed fault of fit made the model FAILURE, and both scores are FAILURE
C11_Witness ==
    /\ ret.key = <<"fit_and_score">>
    /\ ret.how = "returned"
    /\ ret.frame.est_arg = TemplateRef
    /\ ret.frame.exc = Exception("fit")
    /\ ret.frame.est = FIT_FAILURE
    /\ ret.frame.return_train_score
    /\ ret.value = Pair(FIT_FAILURE, FIT_FAILURE)

----------------------------------------------------------------------------
(* Pairwise extraction *)

\* X is no square kernel matrix
NonSquare(X) == ~hasattr_shape(X) \/ shape0(X) # shape1(X)

\* the last call was a feature extraction in pairwise mode, called with data X
PairwiseFeatureCall ==
    /\ pairwise
    /\ ret.key \in DataKeys
    /\ ret.key[2]

\* an extraction that fails writes nothing
FailureLeavesTable ==
    (\E t \in Threads : pc[t] = "_extract_pairwise" /\ pc'[t] = "idle"
                        /\ ret'.how = "ValueError") => cache' = cache

\* C12: feature extraction in pairwise mode on a container that is not
\* square, or has no shape, fails with the ValueError in every reachable
\* state of the cache, whatever calls were made before; and an extraction
\* that fails leaves the memoization table as it was.
C12_PairwiseAlwaysValidates ==
    /\ []((PairwiseFeatureCall /\ NonSquare(ret.frame.data)) => ret.how = "ValueError")
    /\ [][FailureLeavesTable]_vars

----------------------------------------------------------------------------
(* The result table *)

\* the last call returned the result table
TableBuilt == ret.key = <<"create_cv_results">> /\ ret.how = "returned"

\* the score of candidate c on split sp as it was handed to create_cv_results
UnitScore(a, sp, c) == a.scores[(sp - 1) * Len(a.candidate_params) + c]
TestScore(a, sp, c) ==
    IF UnitScore(a, sp, c).tag = "tuple" THEN UnitScore(a, sp, c).a ELSE UnitScore(a, sp, c)

\* the score that counts for a unit: error_score for a FAILURE
Counted(sc, es) == IF sc = FIT_FAILURE THEN es.v ELSE sc.v

\* the weight of split sp
WeightOf(a, sp) == IF a.weights = NoneV THEN 1 ELSE a.weights.rows[sp]

\* C13: create_cv_results penalizes failures, it does not exclude them: every
\* FAILURE among the test scores and among the train scores counts as
\* error_score, every candidate gets a mean, a std and a rank, and a
\* candidate that failed on every fold has the error score as its mean and a
\* std of 0 (mean 0 and std 0 for error_score = 0).
C13_FailuresPenalized ==
    TableBuilt =>
        LET a == ret.frame.args
            r == ret.value
            Cs == 1..Len(a.candidate_params)
            Ss == 1..a.n_splits
        IN  /\ DOMAIN r.mean_test_score = Cs
            /\ DOMAIN r.std_test_score = Cs
            /\ DOMAIN r.rank_test_score = Cs
            /\ \A c \in Cs :
                  /\ r.rank_test_score[c] \in Cs
                  /\ \A sp \in Ss :
                        r.split_test_score[sp][c] = Counted(TestScore(a, sp, c), a.error_score)
                  /\ r.mean_test_score[c].num =
                        SumTo([sp \in Ss |-> WeightOf(a, sp)
                                             * Counted(TestScore(a, sp, c), a.error_score)],
                              a.n_splits)
                  /\ r.mean_test_score[c].den = SumTo([sp \in Ss |-> WeightOf(a, sp)], a.n_splits)
                  /\ (\A sp \in Ss : TestScore(a, sp, c) = FIT_FAILURE) =>
                        /\ r.mean_test_score[c].num = a.error_score.v * r.mean_test_score[c].den
                        /\ r.std_test_score[c].num = 0
                  /\ a.scores[1].tag = "tuple" =>
                        /\ \A sp \in Ss :
                              r.train.split_train_score[sp][c] =
                                 Counted(UnitScore(a, sp, c).b, a.error_score)
                        /\ r.train.mean_train_score[c].num =
                              SumTo([sp \in Ss |-> Counted(UnitScore(a, sp, c).b, a.error_score)],
                                    a.n_splits)

\* with error_score = 0, a candidate that failed on every fold has mean 0 and
\* std 0, and ranks behind a candidate that did not fail
C13_Witness ==
    /\ TableBuilt
    /\ ret.frame.args.error_score = Scalar(0)
    /\ Len(ret.frame.args.candidate_params) = 2
    /\ \A sp \in 1..2 : UnitScore(ret.frame.args, sp, 1) = Pair(FIT_FAILURE, FIT_FAILURE)
    /\ \A sp \in 1..2 : UnitScore(ret.frame.args, sp, 2) # Pair(FIT_FAILURE, FIT_FAILURE)
    /\ ret.value.mean_test_score[1].num = 0
    /\ ret.value.std_test_score[1].num = 0
    /\ ret.value.rank_test_score = <<2, 1>>

\* in table r the mean test score of candidate d is greater than that of c
MeanGreater(r, d, c) ==
    r.mean_test_score[d].num * r.mean_test_score[c].den
        > r.mean_test_score[c].num * r.mean_test_score[d].den

\* the candidates of table r with a greater mean test score than c
Better(r, c) == {d \in DOMAIN r.mean_test_score : MeanGreater(r, d, c)}

\* C14: rank_test_score is the min-tie rank by descending mean test score:
\* the rank of a candidate is 1 plus the number of candidates with a strictly
\* greater mean, so equal means share a rank and the ranks after a tie are
\* skipped.
C14_MinTieRank ==
    TableBuilt =>
        \A c \in DOMAIN ret.value.rank_test_score :
            ret.value.rank_test_score[c] = 1 + Cardinality(Better(ret.value, c))

\* two candidates tie for the best mean: ranks 1, 1, 3 and no rank 2
C14_Witness ==
    /\ TableBuilt
    /\ ret.value.rank_test_score = <<1, 1, 3>>
    /\ ret.value.mean_test_score[1] = ret.value.mean_test_score[2]

\* the distinct mean test scores of table r greater than that of candidate c
BetterMeans(r, c) == {r.mean_test_score[d] : d \in Better(r, c)}

\* C15, as stated: the rank of every candidate is the number of distinct mean
\* test scores strictly greater than its own, plus 1.
C15_RankCountsDistinctMeans ==
    TableBuilt =>
        \A c \in DOMAIN ret.value.rank_test_score :
            ret.value.rank_test_score[c] = 1 + Cardinality(BetterMeans(ret.value, c))

\* C15, amended: the rank of every candidate is at least the number of
\* distinct mean test scores strictly greater than its own, plus 1, and it
\* is that number exactly when no two candidates with a greater mean tie.
C15_RankAtLeastDistinctMeans ==
    TableBuilt =>
        \A c \in DOMAIN ret.value.rank_test_score :
            LET rank == ret.value.rank_test_score[c]
                distinct == Cardinality(BetterMeans(ret.value, c))
                tie == \E d, e \in Better(ret.value, c) :
                          d # e /\ ret.value.mean_test_score[d] = ret.value.mean_test_score[e]
            IN  /\ rank >= 1 + distinct
                /\ (rank = 1 + distinct) <=> ~tie

\* one mean is greater than that of candidate 1, held by two candidates:
\* candidate 1 has rank 3, not 2
C15_Witness ==
    /\ TableBuilt
    /\ ret.value.rank_test_score = <<3, 1, 1>>
    /\ Cardinality(BetterMeans(ret.value, 1)) = 1

\* C16: for a non-empty candidate list and the table create_cv_results built
\* for it, get_best_params finds a candidate of rank 1 and returns the
\* overlay of the first candidate of rank 1, a candidate of maximal mean
\* test score; of several tied best candidates it returns the earliest.
C16_FirstOfRankOne ==
    ret.key = <<"get_best_params">> =>
        LET cp == ret.frame.args.candidate_params
            r == ret.frame.args.cv_results
            ones == {i \in DOMAIN cp : r.rank_test_score[i] = 1}
        IN  /\ ret.how = "returned"
            /\ ones # {}
            /\ \E i \in ones :
                  /\ ret.value = cp[i]
                  /\ \A j \in ones : i <= j
                  /\ Better(r, i) = {}
                  /\ \A j \in DOMAIN cp : Better(r, j) = {} => i <= j

\* candidates 2 and 3 tie for the best mean, and the overlay of 2 is returned
C16_Witness ==
    /\ ret.key = <<"get_best_params">>
    /\ ret.frame.args.cv_results.rank_test_score = <<3, 1, 1>>
    /\ ret.value = Candidates(3)[2]

----------------------------------------------------------------------------
(* Distribution of the cache *)

\* the step that reduces and reconstructs the cache yields a cold copy
ReducedCold ==
    (original = NoneV /\ original' # NoneV) =>
        /\ splits' = splits
        /\ pairwise' = pairwise
        /\ (cache' = NoneV) <=> (cache = NoneV)
        /\ cache' # NoneV => cache'.d = << >>

\* the copy agrees with the original, and every entry it holds was computed
\* on the copy
CopyAgrees ==
    original # NoneV =>
        /\ splits = original.splits
        /\ pairwise = original.pairwise
        /\ (cache = NoneV) <=> (original.cache = NoneV)
        /\ cache # NoneV =>
              \A k \in DOMAIN cache.d :
                  /\ ncomputed[k] > original.ncomputed[k]
                  /\ k \in DOMAIN original.cache.d => cache.d[k] = original.cache.d[k]
        /\ (original.cache # NoneV /\ ret.how \in {"computed", "hit"}
              /\ ret.key \in DOMAIN original.cache.d) =>
                 ret.value = original.cache.d[ret.key]

\* C17: reducing a CVCache for distribution and reconstructing it yields a
\* cold cache: the copy has the splits, the pairwise flag and the
\* cache-enabled flag of the original and an empty memoization table,
\* whatever entries the original held, so the first extract per key on the
\* copy recomputes, and returns the value the original holds for the key.
C17_ColdCopy == []CopyAgrees /\ [][ReducedCold]_vars

\* the copy has recomputed an entry the original held
C17_Witness ==
    /\ original # NoneV
    /\ original.cache # NoneV
    /\ ret.how = "computed"
    /\ ret.key \in DOMAIN original.cache.d
    /\ ret.value = original.cache.d[ret.key]
    /\ ncomputed[ret.key] = 2

----------------------------------------------------------------------------
(* The final refit *)

\* C18: the final refit is never softened: when cloning, parameter
\* application or fit raises inside fit_best, the fault propagates to the
\* caller, no FAILURE is returned and no fit-failure warning is emitted,
\* whatever the error policy of the search.
C18_RefitFaultsPropagate ==
    ret.key = <<"fit_best">> =>
        /\ Warnings(ret.frame.log) = << >>
        /\ ret.value # FIT_FAILURE
        /\ ret.frame.exc # NoneV => (ret.how = "raised" /\ ret.value = ret.frame.exc)
        /\ ret.how = "returned" => (ret.frame.exc = NoneV /\ ret.value.tag = "clone")

\* fit raised inside fit_best in a search that suppresses faults of fit
C18_Witness ==
    /\ error_score # RAISE
    /\ ret.key = <<"fit_best">>
    /\ ret.how = "raised"
    /\ ret.value = Exception("fit")

----------------------------------------------------------------------------
(* The lock *)

\* the lock is free, or held by a thread that is inside est.set_params
HeldInside ==
    /\ SET_PARAMS_LOCK \in Threads \cup {"free"}
    /\ \A t \in Threads : SET_PARAMS_LOCK = t <=> pc[t] = "est_set_params"

\* the step that leaves est.set_params, by return or by raise, frees the lock
ReleasedOnExit ==
    \A t \in Threads :
        (pc[t] = "est_set_params" /\ pc'[t] # "est_set_params") => SET_PARAMS_LOCK' = "free"

\* C19: SET_PARAMS_LOCK is always released: set_params releases it when the
\* parameter-setting routine returns and when it raises, under both error
\* policies, so the lock is never held by a thread that has left set_params,
\* and under fair scheduling every thread that waits for the lock acquires it.
C19_LockReleased ==
    /\ []HeldInside
    /\ [][ReleasedOnExit]_vars
    /\ \A t \in Threads : (pc[t] = "SET_PARAMS_LOCK") ~> (SET_PARAMS_LOCK = t)

\* est.set_params raised inside fit, and the other thread holds the lock now
C19_Witness ==
    /\ ret.key = <<"fit">>
    /\ ret.frame.exc = Exception("set_params")
    /\ SET_PARAMS_LOCK \in Threads

----------------------------------------------------------------------------
(* Cache hits *)

\* a call on the cache has just ended within the step that started it
ReturnedAtOnce == ncalls' # ncalls /\ pc' = pc

\* a call for a key that holds an entry returns the entry
HitReturnsEntry ==
    (CacheEnabled /\ ReturnedAtOnce /\ ret'.key \in DOMAIN cache.d) =>
        (ret'.how = "hit" /\ ret'.value = cache.d[ret'.key])

\* ... unless it is a request for labels made with y = None
HitReturnsEntryUnlessNoLabels ==
    (CacheEnabled /\ ReturnedAtOnce /\ ret'.key \in DOMAIN cache.d /\ ret'.how # "none") =>
        (ret'.how = "hit" /\ ret'.value = cache.d[ret'.key])

\* no call goes on to compute for a key that holds an entry
NoMissOnEntry ==
    \A t \in Threads :
        (CacheEnabled /\ pc[t] = "idle" /\ pc'[t] # "idle") => call'[t].key \notin DOMAIN cache.d

\* a store changes the entry of its own key only, in its own family of keys
FamiliesApart ==
    CacheEnabled =>
        /\ \A t \in Threads :
              /\ pc[t] = "extract_param_store" => Len(call[t].key) = 2
              /\ pc[t] \in {"_extract_store", "_extract_pairwise_store"} => Len(call[t].key) = 3
        /\ \A k \in DOMAIN cache.d :
              /\ k \in DOMAIN cache'.d
              /\ cache'.d[k] # cache.d[k] =>
                    \E t \in Threads : /\ pc[t] \in {"_extract_store", "_extract_pairwise_store",
                                                     "extract_param_store"}
                                       /\ pc'[t] = "idle"
                                       /\ call[t].key = k

\* an auxiliary value is stored as it is returned, an array-like one as its
\* training rows, any other as it is
AuxiliaryStored ==
    \A t \in Threads :
        (CacheEnabled /\ pc[t] = "extract_param_store" /\ pc'[t] = "idle") =>
            /\ call[t].key \in DOMAIN cache'.d
            /\ cache'.d[call[t].key] = ret'.value
            /\ ~is_arraylike(call[t].data) => ret'.value = call[t].data

\* C20, as stated: on a cache-enabled CVCache, once a key holds an entry,
\* every later extract / extract_param for the key returns the stored entry,
\* whatever X, y or auxiliary value is passed; a value that is not array-like
\* is stored too; and the two families of keys never overwrite one another.
C20_HitIgnoresData ==
    [][FamiliesApart /\ NoMissOnEntry /\ AuxiliaryStored /\ HitReturnsEntry]_vars

\* C20, amended: the same, for every call except a request for labels made
\* with y = None, which returns None without a lookup.
C20_HitIgnoresDataButNoLabels ==
    [][FamiliesApart /\ NoMissOnEntry /\ AuxiliaryStored /\ HitReturnsEntryUnlessNoLabels]_vars

\* a hit for test features returned the rows of XA to a call made with XB
C20_Witness ==
    /\ ~pairwise
    /\ ret.how = "hit"
    /\ ret.key = <<1, TRUE, FALSE>>
    /\ ret.frame.data = XB
    /\ ret.value = cache.d[ret.key]
    /\ IsSubsetFor(ret.value, ret.key, XA)
    /\ ~IsSubsetFor(ret.value, ret.key, XB)

====
